---- MODULE Spec2Model ----
(***************************************************************************)
(* Model of the event-sensing core (src/background/hook.rs) and of the     *)
(* hot-reloadable state store (src/background/state/application/mod.rs)    *)
(* of Seelen-UI.                                                           *)
(***************************************************************************)
EXTENDS Integers, Sequences, FiniteSets, TLC

(***************************************************************************)
(* Bounds of the model.                                                    *)
(***************************************************************************)
\* most registrations the model keeps pending in the skip map at a time
MaxPending == 2
\* most events of one debounced batch
MaxBatch == 2
\* granularity of the clock, in milliseconds
TickMs == 30
\* age (ms) from which the clock no longer distinguishes timestamps
MaxAge == 60

(***************************************************************************)
(* Program constants.                                                      *)
(***************************************************************************)
\* Duration::from_millis(50) of location_delay_completed
DelayMs == 50

\* window handles (HWND values); 0 is the null handle
Handles == {41, 42}
NoWindow == 0

LocationChange == "ObjectLocationChange"
Foreground == "SystemForeground"
SyntheticKind == "SyntheticFullscreenStart"
PrimaryKinds == {LocationChange, Foreground}
Kinds == PrimaryKinds \cup {SyntheticKind}

(***************************************************************************)
(* State of the hook side.                                                 *)
(***************************************************************************)
VARIABLES
    skip,      \* HookManager.skip: HashMap<isize, Vec<WinEvent>>
    dict,      \* DICT: window -> time elapsed since its stored Instant
    last,      \* LAST_LOCATION_CHANGED
    hook,      \* the hook thread: position in win_event_hook and its locals
    running,   \* Seelen::is_running()
    hooked,    \* the OS hook is installed
    alive,     \* windows that exist (the OS only notifies about these)
    locks,     \* SEELEN and HOOK_MANAGER: the thread that holds each mutex
    lastOp     \* the operation that produced this state, and its outcome

hookVars == <<skip, dict, last, hook, running, hooked, alive, locks, lastOp>>

(***************************************************************************)
(* State of the state store.                                               *)
(***************************************************************************)
VARIABLES
    ld,        \* a FullState under construction: the manager, the files it
               \* reads and the result of the last category load
    fs,        \* the files under the data and the resources directory
    arcs,      \* the Arc<FullState> allocations that are referenced
    cur,       \* FULL_STATE: the allocation the ArcSwap points to
    pipe,      \* the debouncer callback: position and its local `state`
    paused,    \* FILE_LISTENER_PAUSED
    reader,    \* a thread that called FULL_STATE.load() and reads the result
    focus,     \* the categories whose files change in this behaviour
    notes,     \* per category: loads run and notifications emitted for the
               \* batch being handled (or the last one handled)
    storeOp    \* the store operation that produced this state, and its log

reloadVars == <<fs, arcs, cur, pipe, paused, reader, focus, notes, storeOp>>

storeVars == <<ld, reloadVars>>

(***************************************************************************)
(* One call of HookManager::event or of process_vd_event on given inputs.  *)
(***************************************************************************)
VARIABLES
    call       \* the function called, its inputs and what it did

(***************************************************************************)
(* A thread that changes the state directly: cloned, mutate, store.        *)
(***************************************************************************)
VARIABLES
    writer     \* its position and the clone it works on

(***************************************************************************)
(* A module that registers a skip and then operates on the window.         *)
(***************************************************************************)
VARIABLES
    module     \* its position, its window and kind, the thread it spawned

vars == <<hookVars, storeVars, call, writer, module>>

----------------------------------------------------------------------------
(***************************************************************************)
(* Maps with a varying key set.                                            *)
(***************************************************************************)
EmptyMap == [x \in {} |-> 0]

Put(m, key, v) == [x \in DOMAIN m \cup {key} |-> IF x = key THEN v ELSE m[x]]

Remove(m, key) == [x \in DOMAIN m \ {key} |-> m[x]]

RemoveAt(s, pos) == SubSeq(s, 1, pos - 1) \o SubSeq(s, pos + 1, Len(s))

\* number of occurrences of e in the sequence s
Count(s, e) == Cardinality({i \in 1..Len(s) : s[i] = e})

\* registrations pending for (hwnd, event) in the skip map m
Pending(m, event, hwnd) == IF hwnd \in DOMAIN m THEN Count(m[hwnd], event) ELSE 0

\* registrations pending in the whole skip map m
TotalPending(m) ==
    Cardinality({p \in (DOMAIN m) \X (1..(MaxPending + 1)) : p[2] <= Len(m[p[1]])})

----------------------------------------------------------------------------
(***************************************************************************)
(* HookManager (the skip registry).                                        *)
(***************************************************************************)
\* self.skip.entry(hwnd).or_default().push(event)
skip_push(m, event, hwnd) ==
    Put(m, hwnd, (IF hwnd \in DOMAIN m THEN m[hwnd] ELSE <<>>) \o <<event>>)

should_skip(m, event, hwnd) ==
    IF hwnd \in DOMAIN m
    THEN \E i \in 1..Len(m[hwnd]) : m[hwnd][i] = event
    ELSE FALSE

\* v.iter().position(|e| e == &event)
position(v, event) ==
    CHOOSE i \in 1..Len(v) : v[i] = event /\ \A j \in 1..(i - 1) : v[j] # event

\* a skip_done that drops every registration of the kind
skip_done_all(m, event, hwnd) ==
    IF hwnd \in DOMAIN m
    THEN LET v == SelectSeq(m[hwnd], LAMBDA e : e # event)
         IN  IF v = <<>> THEN Remove(m, hwnd) ELSE Put(m, hwnd, v)
    ELSE m

\* a skip_done that leaves the emptied list in the map
skip_done_keep(m, event, hwnd) ==
    IF hwnd \in DOMAIN m
    THEN IF \E i \in 1..Len(m[hwnd]) : m[hwnd][i] = event
         THEN Put(m, hwnd, RemoveAt(m[hwnd], position(m[hwnd], event)))
         ELSE m
    ELSE m

skip_done(m, event, hwnd) ==
    IF hwnd \in DOMAIN m
    THEN LET v == IF \E i \in 1..Len(m[hwnd]) : m[hwnd][i] = event
                  THEN RemoveAt(m[hwnd], position(m[hwnd], event))
                  ELSE m[hwnd]
         IN  IF v = <<>> THEN Remove(m, hwnd) ELSE Put(m, hwnd, v)
    ELSE m

\* HookManager::event, as far as the skip registry goes: the skip map after
\* the event and whether the event was swallowed by the skip-check
event(m, ev, origin) ==
    IF should_skip(m, ev, origin)
    THEN [skip |-> skip_done(m, ev, origin), swallowed |-> TRUE]
    ELSE [skip |-> m, swallowed |-> FALSE]

\* a loop over the synthetics that leaves out the skip-check
synthetic_event_unchecked(m, ev, origin) == [skip |-> m, swallowed |-> FALSE]

\* hook_manager.event(synthetic_event, origin, &mut seelen): a synthetic goes
\* through the same HookManager::event as a primary event
synthetic_event(m, ev, origin) == event(m, ev, origin)

\* WinEvent::get_synthetics: the secondary kinds a primary event implies for
\* the same window (it depends on the window's state; an Err gives none)
get_synthetics(ev) ==
    IF ev \in PrimaryKinds THEN {<<>>, <<SyntheticKind>>} ELSE {<<>>}

\* a loop over the synthetics that is left out when the primary event was
\* swallowed
synthetics_unless_swallowed(primary_swallowed, syn) ==
    IF primary_swallowed THEN <<>> ELSE syn

\* the synthetics win_event_hook goes through, syn being what
\* event.get_synthetics(origin) returned: hook_manager.event returns nothing,
\* so the loop does not depend on what became of the primary event
synthetics_dispatched(primary_swallowed, syn) == syn

\* one HookManager::event call as win_event_hook sees it: the event, whether
\* the skip-check swallowed it and the skip map it leaves
Dispatched(ev, origin, r) ==
    [ev |-> ev, origin |-> origin, swallowed |-> r.swallowed, skip |-> r.skip]

\* the loop `for synthetic_event in synthetics`, done being the calls made so
\* far
RECURSIVE dispatch_synthetics(_, _, _, _)
dispatch_synthetics(m, syn, origin, done) ==
    IF syn = <<>> THEN done
    ELSE LET r == synthetic_event(m, Head(syn), origin)
         IN  dispatch_synthetics(r.skip, Tail(syn), origin,
                                 Append(done, Dispatched(Head(syn), origin, r)))

\* win_event_hook from hook_manager.event(event, ..) to its end: the calls of
\* HookManager::event it makes, in order
dispatch_all(m, ev, origin, syn) ==
    LET r == event(m, ev, origin)
    IN  dispatch_synthetics(r.skip, synthetics_dispatched(r.swallowed, syn), origin,
                            <<Dispatched(ev, origin, r)>>)

----------------------------------------------------------------------------
(***************************************************************************)
(* The location-changed rate limit.                                        *)
(***************************************************************************)
\* a gate that only looks at the elapsed time
delay_elapsed_only(d, l, origin) ==
    IF origin \in DOMAIN d
    THEN d[origin] > DelayMs
    ELSE TRUE

\* should_continue of location_delay_completed
delay_should_continue(d, l, origin) ==
    IF origin \in DOMAIN d
    THEN l # origin \/ d[origin] > DelayMs
    ELSE TRUE

\* location_delay_completed: its result and the DICT and LAST_LOCATION_CHANGED
\* it leaves
location_delay_completed(d, l, origin) ==
    IF delay_should_continue(d, l, origin)
    THEN [ok |-> TRUE, dict |-> Put(d, origin, 0), last |-> origin]
    ELSE [ok |-> FALSE, dict |-> d, last |-> l]


----------------------------------------------------------------------------
(***************************************************************************)
(* HookManager::event past the skip-check, and process_vd_event.           *)
(***************************************************************************)
ObjectFocus == "ObjectFocus"

\* the kinds for which HookManager::event reads the window's title
FocusKinds == {ObjectFocus, Foreground}

\* window.app_display_name().unwrap_or(String::from("Error on App Name"))
display_name(name_ok) == IF name_ok THEN "name" ELSE "Error on App Name"

\* window.exe().ok()
exe_path(exe_ok) == IF exe_ok THEN "exe" ELSE "None"

\* what HookManager::event does with an event that the skip-check did not
\* swallow, in a given environment e
NoEffects == [last_active |-> FALSE, emit |-> <<>>, forwarded |-> <<>>]

\* an event that gives up the focus notification when the display name or the
\* executable path does not resolve
event_effects_name_required(ev, e) ==
    LET is_focus == ev \in FocusKinds
        emit == IF is_focus /\ e.name_ok /\ e.exe_ok
                THEN <<[name |-> display_name(e.name_ok), exe |-> exe_path(e.exe_ok)]>>
                ELSE <<>>
    IN  [last_active |-> ev = Foreground /\ ~e.overlay,
         emit |-> IF is_focus /\ e.title_ignored THEN <<>> ELSE emit,
         forwarded |->
            IF is_focus /\ e.title_ignored THEN <<>>
            ELSE (IF e.vd_seelen THEN <<"vd">> ELSE <<>>)
                 \o (IF e.weg_enabled THEN <<"weg">> ELSE <<>>)
                 \o (IF e.wm_enabled THEN <<"wm">> ELSE <<>>)
                 \o <<"monitors">>]

\* HookManager::event from `let window` on: LAST_ACTIVE_NOT_SEELEN, the focus
\* notification (none, or one with its payload) and, in order, the modules
\* the event is forwarded to
event_effects(ev, e) ==
    LET is_focus == ev \in FocusKinds
        last_active == ev = Foreground /\ ~e.overlay
    IN  IF is_focus /\ e.title_ignored
        THEN [last_active |-> last_active, emit |-> <<>>, forwarded |-> <<>>]
        ELSE [last_active |-> last_active,
              emit |-> IF is_focus
                       THEN <<[name |-> display_name(e.name_ok),
                               exe |-> exe_path(e.exe_ok)]>>
                       ELSE <<>>,
              forwarded |->
                 (IF e.vd_seelen THEN <<"vd">> ELSE <<>>)
                 \o (IF e.weg_enabled THEN <<"weg">> ELSE <<>>)
                 \o (IF e.wm_enabled THEN <<"wm">> ELSE <<>>)
                 \o <<"monitors">>]

\* the whole of HookManager::event on the skip map m
event_call(m, ev, origin, e) ==
    LET r == event(m, ev, origin)
    IN  [skip |-> r.skip, swallowed |-> r.swallowed,
         effects |-> IF r.swallowed THEN NoEffects ELSE event_effects(ev, e)]

\* the kinds of VirtualDesktopEvent: those that change the list of desktops,
\* DesktopChanged, WindowChanged and the others
VdKinds == {"DesktopCreated", "DesktopChanged", "WindowChanged", "Other"}

\* a process_vd_event that pins whenever the configuration says Pinned
process_vd_event_always_pin(ev, e) ==
    LET fwd == IF e.wm_enabled THEN <<"wm">> ELSE <<>>
    IN  CASE ev = "DesktopCreated" ->
               IF ~e.get_all_ok THEN [ok |-> FALSE, did |-> fwd \o <<"get_all">>]
               ELSE [ok |-> e.emit_ok, did |-> fwd \o <<"get_all", "emit_workspaces">>]
          [] ev = "DesktopChanged" -> [ok |-> e.emit_ok, did |-> fwd \o <<"emit_active">>]
          [] ev = "WindowChanged" ->
               IF e.is_window /\ e.config = "pinned"
               THEN [ok |-> e.pin_ok, did |-> fwd \o <<"pin_window">>]
               ELSE [ok |-> TRUE, did |-> fwd]
          [] OTHER -> [ok |-> TRUE, did |-> fwd]

\* process_vd_event: its result and, in order, the calls it makes
process_vd_event(ev, e) ==
    LET fwd == IF e.wm_enabled THEN <<"wm">> ELSE <<>>
    IN  CASE ev = "DesktopCreated" ->
               IF ~e.get_all_ok THEN [ok |-> FALSE, did |-> fwd \o <<"get_all">>]
               ELSE [ok |-> e.emit_ok, did |-> fwd \o <<"get_all", "emit_workspaces">>]
          [] ev = "DesktopChanged" -> [ok |-> e.emit_ok, did |-> fwd \o <<"emit_active">>]
          [] ev = "WindowChanged" ->
               IF e.is_window /\ e.config # "none" /\ e.config = "pinned"
               THEN IF e.is_pinned = "err"
                    THEN [ok |-> FALSE, did |-> fwd \o <<"is_pinned_window">>]
                    ELSE IF e.is_pinned = "no"
                    THEN [ok |-> e.pin_ok,
                          did |-> fwd \o <<"is_pinned_window", "pin_window">>]
                    ELSE [ok |-> TRUE, did |-> fwd \o <<"is_pinned_window">>]
               ELSE [ok |-> TRUE, did |-> fwd]
          [] OTHER -> [ok |-> TRUE, did |-> fwd]

----------------------------------------------------------------------------
(***************************************************************************)
(* The state store: files, snapshots and the category loads.               *)
(***************************************************************************)
\* the categories, in the order process_event goes through them
CatOrder ==
    <<"weg_items", "history", "settings", "themes", "placeholders", "layouts",
      "settings_by_app">>

Categories == {CatOrder[i] : i \in 1..Len(CatOrder)}

\* the categories kept as a mapping from resource identity (file name)
IdCats == {"themes", "placeholders", "layouts"}

DefaultPlaceholder == "default.yml"
DefaultLayout == "BSP.json"
CustomName == "custom.yml"

\* the file names the model puts under a category's directories
NamesOf(c) ==
    IF c = "layouts" THEN {DefaultLayout, CustomName} ELSE {DefaultPlaceholder, CustomName}

\* parsed contents of a resource file; Bad is a file that does not load
\* (wrong extension or malformed content)
Contents == {"v1", "v2"}
Bad == "bad"

\* a directory that exists, with its entries by file name, and one that does not
Folder(entries) == [exists |-> TRUE, entries |-> entries]
NoFolder == [exists |-> FALSE, entries |-> EmptyMap]

File(c) == [dir |-> FALSE, data |-> c]
Dir(c) == [dir |-> TRUE, data |-> c]
Entries == {File(c) : c \in Contents \cup {Bad}} \cup {Dir(c) : c \in Contents \cup {Bad}}

\* load_theme_from_file, load_placeholder_from_file, load_layout_from_file:
\* Ok(content) unless the extension or the content is wrong
load_from_file(e) == IF e.data = Bad THEN [ok |-> FALSE] ELSE [ok |-> TRUE, data |-> e.data]

\* load_theme_from_dir: the manifest theme.yml of a theme directory
load_theme_from_dir(e) == IF e.data = Bad THEN [ok |-> FALSE] ELSE [ok |-> TRUE, data |-> e.data]

\* what one directory entry loads to in category c (skip: the entry is passed
\* over without a load)
load_entry(c, e) ==
    IF e.dir
    THEN IF c = "themes" THEN load_theme_from_dir(e) ELSE [ok |-> FALSE]
    ELSE load_from_file(e)

\* the loop body over the entries of one directory, in read_dir's order:
\* every entry that loads is inserted under its file name
RECURSIVE insert_entries(_, _, _, _)
insert_entries(c, map, d, names) ==
    IF names = {} THEN map
    ELSE LET n == CHOOSE x \in names : TRUE
             r == load_entry(c, d[n])
         IN  insert_entries(c,
                 IF r.ok THEN Put(map, n, [data |-> r.data, filename |-> n]) ELSE map,
                 d, names \ {n})

\* read_dir(resources).chain(read_dir(user)) in the wrong order
load_merged_user_first(c, map, bundled, user) ==
    insert_entries(c, insert_entries(c, map, user, DOMAIN user), bundled, DOMAIN bundled)

\* the entries of the bundled directory, then those of the user directory
load_merged(c, map, bundled, user) ==
    insert_entries(c, insert_entries(c, map, bundled, DOMAIN bundled), user, DOMAIN user)

\* load_themes, load_placeholders, load_layouts up to the end of the loop:
\* either read_dir fails before anything is touched
load_id_map(c, st, f) ==
    IF ~f.bundled[c].exists \/ ~f.user[c].exists
    THEN [ok |-> FALSE, state |-> st, fs |-> f]
    ELSE [ok |-> TRUE,
          state |-> [st EXCEPT ![c] = load_merged(c, st[c], f.bundled[c].entries,
                                                  f.user[c].entries)],
          fs |-> f]

load_themes(st, f) == load_id_map("themes", st, f)

load_placeholders(st, f) ==
    LET r == load_id_map("placeholders", st, f)
    IN  IF ~r.ok THEN r
        ELSE IF r.state.settings.placeholder \in DOMAIN r.state.placeholders THEN r
        ELSE [r EXCEPT !.state.settings.placeholder = DefaultPlaceholder]

load_layouts(st, f) ==
    LET r == load_id_map("layouts", st, f)
    IN  IF ~r.ok THEN r
        ELSE IF r.state.settings.default_layout \in DOMAIN r.state.layouts THEN r
        ELSE [r EXCEPT !.state.settings.default_layout = DefaultLayout]

\* Settings::default()
DefaultSettings ==
    [placeholder |-> DefaultPlaceholder, default_layout |-> DefaultLayout,
     theme |-> "default.yml", vd |-> "Native"]

\* a settings.json that selects the user's own resources
CustomSettings ==
    [placeholder |-> CustomName, default_layout |-> CustomName,
     theme |-> CustomName, vd |-> "Native"]

\* utils::is_virtual_desktop_supported(): a fact of the Windows build
is_virtual_desktop_supported == FALSE

\* the manager FullState::new builds before load_all
EmptyState ==
    [settings |-> DefaultSettings,
     settings_by_app |-> <<>>,
     themes |-> EmptyMap,
     placeholders |-> EmptyMap,
     layouts |-> EmptyMap,
     weg_items |-> "w0",
     history |-> "h0"]

\* a file that parses to v, a file that does not parse, no file
Ok(v) == [st |-> "ok", v |-> v]
Malformed(v) == [st |-> "bad", v |-> v]
NoFile(v) == [st |-> "absent", v |-> v]

\* a bundled-resources directory for category c with its default resource
BundledDir(c) ==
    Folder(IF c = "layouts" THEN (DefaultLayout :> File("v1"))
           ELSE (DefaultPlaceholder :> File("v1")))

\* the files of a fresh installation
BaseFs ==
    [settings |-> Ok(DefaultSettings),
     weg |-> Ok("w0"),
     history |-> Ok("h0"),
     apps_user |-> Ok(<<>>),
     apps_tmpl |-> Ok(<<"bundledApp">>),
     bundled |-> [c \in IdCats |-> BundledDir(c)],
     user |-> [c \in IdCats |-> Folder(EmptyMap)]]

\* the directories a load of one identity-keyed category may find
DirInputs(c) ==
    {Folder(d) : d \in UNION {[ns -> Entries] : ns \in SUBSET NamesOf(c)}}

\* the user's directory may also be missing
UserDirInputs(c) == DirInputs(c) \cup {NoFolder}

\* a load: its category, its result, the manager and the files it leaves (fs)
\* and the files it found (fs0)
Load(c, ok, st, f, f0) == [cat |-> c, ok |-> ok, state |-> st, fs |-> f, fs0 |-> f0]

NoLoad == Load("none", TRUE, EmptyState, BaseFs, BaseFs)

InitLoadIdle == ld = NoLoad

\* a manager about to load category c from some bundled and user directory
InitLoad ==
    \E c \in IdCats : \E b \in DirInputs(c), u \in UserDirInputs(c), sel \in NamesOf(c) :
        LET f == [BaseFs EXCEPT !.bundled[c] = b, !.user[c] = u]
        IN  ld = Load("none", TRUE,
                      [EmptyState EXCEPT
                         !.settings.placeholder = IF c = "placeholders" THEN sel ELSE @,
                         !.settings.default_layout = IF c = "layouts" THEN sel ELSE @],
                      f, f)

LoadThemes ==
    /\ ld.cat = "none"
    /\ LET r == load_themes(ld.state, ld.fs)
       IN  ld' = Load("themes", r.ok, r.state, r.fs, ld.fs)
    /\ UNCHANGED <<hookVars, reloadVars, call, writer, module>>

LoadPlaceholders ==
    /\ ld.cat = "none"
    /\ LET r == load_placeholders(ld.state, ld.fs)
       IN  ld' = Load("placeholders", r.ok, r.state, r.fs, ld.fs)
    /\ UNCHANGED <<hookVars, reloadVars, call, writer, module>>

LoadLayouts ==
    /\ ld.cat = "none"
    /\ LET r == load_layouts(ld.state, ld.fs)
       IN  ld' = Load("layouts", r.ok, r.state, r.fs, ld.fs)
    /\ UNCHANGED <<hookVars, reloadVars, call, writer, module>>

----------------------------------------------------------------------------
(***************************************************************************)
(* The loads of the single-file categories.                                *)
(***************************************************************************)
Result(ok, st, f) == [ok |-> ok, state |-> st, fs |-> f]

load_settings(st, f) ==
    IF f.settings.st = "bad" THEN Result(FALSE, st, f)
    ELSE LET exists == f.settings.st = "ok"
             s1 == IF exists THEN f.settings.v ELSE st.settings
             s2 == IF ~is_virtual_desktop_supported THEN [s1 EXCEPT !.vd = "Seelen"] ELSE s1
             st2 == [st EXCEPT !.settings = s2]
         IN  Result(TRUE, st2, IF exists THEN f ELSE [f EXCEPT !.settings = Ok(s2)])

load_weg_items(st, f) ==
    IF f.weg.st = "bad" THEN Result(FALSE, st, f)
    ELSE IF f.weg.st = "ok" THEN Result(TRUE, [st EXCEPT !.weg_items = f.weg.v], f)
    ELSE Result(TRUE, st, [f EXCEPT !.weg = Ok(st.weg_items)])

load_history(st, f) ==
    IF f.history.st = "bad" THEN Result(FALSE, st, f)
    ELSE IF f.history.st = "ok" THEN Result(TRUE, [st EXCEPT !.history = f.history.v], f)
    ELSE Result(TRUE, st, [f EXCEPT !.history = Ok(st.history)])

Apps(ids, bundled) == [i \in 1..Len(ids) |-> [id |-> ids[i], is_bundled |-> bundled]]

load_settings_by_app(st, f) ==
    LET cleared == [st EXCEPT !.settings_by_app = <<>>]
        \* save_settings_by_app of the cleared list writes an empty array
        f2 == IF f.apps_user.st = "absent" THEN [f EXCEPT !.apps_user = Ok(<<>>)] ELSE f
    IN  IF f2.apps_tmpl.st # "ok" THEN Result(FALSE, cleared, f2)
        ELSE LET st2 == [cleared EXCEPT !.settings_by_app = Apps(f2.apps_tmpl.v, TRUE)]
             IN  IF f2.apps_user.st = "bad" THEN Result(FALSE, st2, f2)
                 ELSE Result(TRUE,
                             [st2 EXCEPT !.settings_by_app = @ \o Apps(f2.apps_user.v, FALSE)],
                             f2)

\* the load of category c
load(c, st, f) ==
    CASE c = "weg_items" -> load_weg_items(st, f)
      [] c = "history" -> load_history(st, f)
      [] c = "settings" -> load_settings(st, f)
      [] c = "themes" -> load_themes(st, f)
      [] c = "placeholders" -> load_placeholders(st, f)
      [] c = "layouts" -> load_layouts(st, f)
      [] c = "settings_by_app" -> load_settings_by_app(st, f)

\* load_all: every load in turn, given up at the first Err
LoadAllOrder ==
    <<"settings", "weg_items", "themes", "placeholders", "layouts", "settings_by_app",
      "history">>

RECURSIVE load_all_from(_, _, _)
load_all_from(i, st, f) ==
    IF i > Len(LoadAllOrder) THEN Result(TRUE, st, f)
    ELSE LET r == load(LoadAllOrder[i], st, f)
         IN  IF r.ok THEN load_all_from(i + 1, r.state, r.fs) ELSE r

load_all(st, f) == load_all_from(1, st, f)

\* the categories kept in one file of the user's
FileCats == {"settings", "weg_items", "history", "settings_by_app"}

\* what a load of a single-file category may find: the user's file well
\* formed, malformed or missing and, for the per-app configurations, the
\* bundled template well formed or malformed
InitLoadFile ==
    \E u \in {"ok", "bad", "absent"}, t \in {"ok", "bad"}, c \in FileCats :
        LET mk(v) == [st |-> u, v |-> v]
            f == CASE c = "settings" -> [BaseFs EXCEPT !.settings = mk(CustomSettings)]
                   [] c = "weg_items" -> [BaseFs EXCEPT !.weg = mk("w1")]
                   [] c = "history" -> [BaseFs EXCEPT !.history = mk("h1")]
                   [] c = "settings_by_app" ->
                         [BaseFs EXCEPT !.apps_user = mk(<<"userApp">>), !.apps_tmpl.st = t]
        IN  ld = Load("none", TRUE, EmptyState, f, f)

\* load_settings, load_weg_items, load_history, load_settings_by_app
LoadFile(c) ==
    /\ ld.cat = "none"
    /\ c \in FileCats
    /\ LET r == load(c, ld.state, ld.fs)
       IN  ld' = Load(c, r.ok, r.state, r.fs, ld.fs)
    /\ UNCHANGED <<hookVars, reloadVars, call, writer, module>>

NextLoad ==
    \/ LoadThemes
    \/ LoadPlaceholders
    \/ LoadLayouts
    \/ \E c \in FileCats : LoadFile(c)

----------------------------------------------------------------------------
(***************************************************************************)
(* FULL_STATE: an ArcSwap over reference-counted snapshots.                *)
(***************************************************************************)
ArcIds == 1..3

\* FULL_STATE.store(Arc::new(snapshot)) that writes through the current Arc
store_in_place(a, c, snapshot, held) == [arcs |-> Put(a, c, snapshot), cur |-> c]

\* FULL_STATE.store(Arc::new(snapshot)): a new allocation becomes current;
\* the old one lives on while a reader (held) still references it
store(a, c, snapshot, held) ==
    LET id == CHOOSE i \in ArcIds \ DOMAIN a : \A j \in ArcIds \ DOMAIN a : i <= j
    IN  [arcs |-> [x \in (DOMAIN a \cap held) \cup {id} |->
                     IF x = id THEN snapshot ELSE a[x]],
         cur |-> id]

----------------------------------------------------------------------------
(***************************************************************************)
(* The reload pipeline.                                                    *)
(***************************************************************************)
DataPath(dir, name) == [root |-> "data", dir |-> dir, name |-> name]
ResPath(dir, name) == [root |-> "res", dir |-> dir, name |-> name]

\* p.starts_with(<data_dir>/<dir>)
UnderData(p, dir) == p.root = "data" /\ p.dir = dir
\* p.starts_with(<resources_dir>/static/<dir>)
UnderRes(p, dir) == p.root = "res" /\ p.dir = dir

\* a path test that takes every path of the data directory for a theme
touches_any_data(ev, c) ==
    CASE c = "weg_items" -> DataPath("", "seelenweg_items.yaml") \in ev
      [] c = "history" -> DataPath("", "history") \in ev
      [] c = "settings" -> DataPath("", "settings.json") \in ev
      [] c = "themes" -> \E p \in ev : p.root = "data" \/ UnderRes(p, "themes")
      [] c = "placeholders" ->
            \E p \in ev : UnderData(p, "placeholders") \/ UnderRes(p, "placeholders")
      [] c = "layouts" -> \E p \in ev : UnderData(p, "layouts") \/ UnderRes(p, "layouts")
      [] c = "settings_by_app" ->
            \E p \in ev : p = DataPath("", "applications.yml") \/ UnderRes(p, "apps_templates")

\* the condition under which process_event reloads category c for the paths
\* ev of one debounced event
touches(ev, c) ==
    CASE c = "weg_items" -> DataPath("", "seelenweg_items.yaml") \in ev
      [] c = "history" -> DataPath("", "history") \in ev
      [] c = "settings" -> DataPath("", "settings.json") \in ev
      [] c = "themes" -> \E p \in ev : UnderData(p, "themes") \/ UnderRes(p, "themes")
      [] c = "placeholders" ->
            \E p \in ev : UnderData(p, "placeholders") \/ UnderRes(p, "placeholders")
      [] c = "layouts" -> \E p \in ev : UnderData(p, "layouts") \/ UnderRes(p, "layouts")
      [] c = "settings_by_app" ->
            \E p \in ev : p = DataPath("", "applications.yml") \/ UnderRes(p, "apps_templates")

\* process_event from the i-th category on: the manager and the files it
\* leaves, the log of what it did and the snapshots it published: a failed
\* load ends the event, a load that succeeds is followed by store_cloned and
\* by the notification
\* a notification sent before the snapshot is published
after_load_emit_first(c) == <<[kind |-> "emit", cat |-> c], [kind |-> "publish", cat |-> c]>>

\* what follows a load that succeeded: self.store_cloned(); self.emit_..()?
after_load(c) == <<[kind |-> "publish", cat |-> c], [kind |-> "emit", cat |-> c]>>

RECURSIVE process_from(_, _, _, _, _, _)
process_from(i, st, f, ev, log, pubs) ==
    IF i > Len(CatOrder) THEN [state |-> st, fs |-> f, log |-> log, pubs |-> pubs]
    ELSE LET c == CatOrder[i]
         IN  IF ~touches(ev, c) THEN process_from(i + 1, st, f, ev, log, pubs)
             ELSE LET r == load(c, st, f)
                  IN  IF ~r.ok
                      THEN [state |-> r.state, fs |-> r.fs,
                            log |-> Append(log, [kind |-> "failed", cat |-> c]),
                            pubs |-> pubs]
                      ELSE process_from(i + 1, r.state, r.fs, ev,
                               log \o after_load(c),
                               Append(pubs, r.state))

process_event(st, f, ev) == process_from(1, st, f, ev, <<>>, <<>>)

\* the flag test that never sees the pause
listener_never_paused(flag) == FALSE

\* FILE_LISTENER_PAUSED.load(Ordering::Acquire)
listener_paused(flag) == flag

\* the groups of categories whose files change together in one behaviour
Groups ==
    {{"settings", "placeholders"}, {"settings", "layouts"}, {"themes", "weg_items"},
     {"settings_by_app", "history"}}

\* what the user's file (or directory) of category c may be on disk
FileStates(c) ==
    CASE c = "settings" ->
            {Ok(DefaultSettings), Ok(CustomSettings), Malformed(DefaultSettings)}
      [] c = "weg_items" -> {Ok("w0"), Ok("w1"), Malformed("w0")}
      [] c = "history" -> {Ok("h0"), Ok("h1"), NoFile("h0")}
      [] c = "settings_by_app" -> {Ok(<<>>), Ok(<<"userApp">>), Malformed(<<>>)}
      [] c \in IdCats -> {Folder(EmptyMap), Folder(CustomName :> File("v2")), NoFolder}

\* the files f with the user's file of category c replaced by v
SetFile(f, c, v) ==
    CASE c = "settings" -> [f EXCEPT !.settings = v]
      [] c = "weg_items" -> [f EXCEPT !.weg = v]
      [] c = "history" -> [f EXCEPT !.history = v]
      [] c = "settings_by_app" -> [f EXCEPT !.apps_user = v]
      [] c \in IdCats -> [f EXCEPT !.user[c] = v]

\* the watched paths that fall under category c
PathsOf(c) ==
    CASE c = "settings" -> {DataPath("", "settings.json")}
      [] c = "weg_items" -> {DataPath("", "seelenweg_items.yaml")}
      [] c = "history" -> {DataPath("", "history")}
      [] c = "settings_by_app" ->
            {DataPath("", "applications.yml"), ResPath("apps_templates", "default.yml")}
      [] c \in IdCats -> {DataPath(c, CustomName), ResPath(c, "default")}

\* the debounced events a behaviour about the group g delivers: one or two
\* changed paths each
EventsOf(g) ==
    {ev \in SUBSET UNION {PathsOf(c) : c \in g} : Cardinality(ev) \in {1, 2}}

\* the categories whose watched paths the event ev names
CatsOfEvent(ev) == {c \in Categories : ev \cap PathsOf(c) # {}}

NoReader == [pc |-> "idle", ref |-> 0, seen |-> EmptyState, view |-> EmptyState]

NoBatch == [pc |-> "idle", state |-> EmptyState, n |-> 0]

NoNotes ==
    [touched |-> {},
     loads |-> [c \in Categories |-> 0], emits |-> [c \in Categories |-> 0],
     mutated |-> FALSE]

NoWriter == [pc |-> "idle", state |-> EmptyState]

StoreOp(op, cats, log) == [op |-> op, cats |-> cats, log |-> log]

\* FullState::new: load_all on the files found, then the snapshot is published
InitStoreAt(g, f) ==
    LET r == load_all(EmptyState, f)
    IN  /\ r.ok
        /\ focus = g
        /\ fs = r.fs
        /\ arcs = (1 :> r.state)
        /\ cur = 1
        /\ pipe = NoBatch
        /\ paused = FALSE
        /\ reader = NoReader
        /\ notes = NoNotes
        /\ writer = NoWriter
        /\ storeOp = StoreOp("init", {}, <<>>)

RECURSIVE FsStates(_, _)
\* the files with those of the categories cs in any of their states
FsStates(f, cs) ==
    IF cs = {} THEN {f}
    ELSE LET c == CHOOSE x \in cs : TRUE
         IN  UNION {FsStates(SetFile(f, c, v), cs \ {c}) : v \in FileStates(c)}

InitStoreIdle == InitStoreAt({"settings", "placeholders"}, BaseFs)

InitReload == \E g \in Groups : \E f \in FsStates(BaseFs, g) : InitStoreAt(g, f)

InitStore == InitStoreAt({"weg_items"}, BaseFs)

\* the user (or the shell itself) rewrites or deletes a file
FsWrite(c, v) ==
    /\ c \in focus
    /\ v \in FileStates(c)
    /\ fs' = SetFile(fs, c, v)
    /\ fs' # fs
    /\ storeOp' = StoreOp("fs", {}, <<>>)
    /\ UNCHANGED <<arcs, cur, pipe, paused, reader, focus, notes, hookVars, ld, call, writer, module>>

\* the references to allocations held outside FULL_STATE
Held == IF reader.pc = "idle" THEN {} ELSE {reader.ref}

\* the debouncer calls the callback with Ok(events): the batch is dropped
\* while the listener is paused, otherwise the snapshot is cloned
BatchDeliver ==
    /\ pipe.pc = "idle"
    /\ IF listener_paused(paused)
       THEN /\ storeOp' = StoreOp("drop", {}, <<>>)
            /\ UNCHANGED <<fs, arcs, cur, pipe, paused, reader, focus, notes, hookVars, ld, call, writer, module>>
       ELSE /\ pipe' = [pc |-> "batch", state |-> arcs[cur], n |-> 0]
            /\ notes' = NoNotes
            /\ storeOp' = StoreOp("start", {}, <<>>)
            /\ UNCHANGED <<fs, arcs, cur, paused, reader, focus, hookVars, ld, call, writer, module>>

\* the number of entries of the kind for category c in a log
LogCount(log, kind, c) ==
    Cardinality({i \in 1..Len(log) : log[i].kind = kind /\ log[i].cat = c})

\* one iteration of `for event in events`: state.process_event(event)
BatchEvent(ev) ==
    /\ pipe.pc = "batch"
    /\ pipe.n < MaxBatch
    /\ ev \in EventsOf(focus)
    /\ LET r == process_event(pipe.state, fs, ev)
           st == IF r.pubs = <<>> THEN [arcs |-> arcs, cur |-> cur]
                 ELSE store(arcs, cur, r.pubs[Len(r.pubs)], Held)
       IN  /\ pipe' = [pipe EXCEPT !.state = r.state, !.n = @ + 1]
           /\ fs' = r.fs
           /\ arcs' = st.arcs
           /\ cur' = st.cur
           /\ notes' = [notes EXCEPT
                          !.touched = @ \cup CatsOfEvent(ev),
                          !.loads = [c \in Categories |->
                                       @[c] + LogCount(r.log, "publish", c)
                                            + LogCount(r.log, "failed", c)],
                          !.emits = [c \in Categories |->
                                       @[c] + LogCount(r.log, "emit", c)]]
           /\ storeOp' = StoreOp("event", CatsOfEvent(ev), r.log)
    /\ UNCHANGED <<paused, reader, focus, hookVars, ld, call, writer, module>>

\* the loop over the batch is over and the callback returns
BatchEnd ==
    /\ pipe.pc = "batch"
    /\ pipe.n >= 1
    /\ pipe' = NoBatch
    /\ notes' = NoNotes
    /\ storeOp' = StoreOp("end", {}, <<>>)
    /\ UNCHANGED <<fs, arcs, cur, paused, reader, focus, hookVars, ld, call, writer, module>>

\* FILE_LISTENER_PAUSED is set around a write of the shell's own (the flag is
\* read at a delivery only, so a change during a batch is a change after it)
Pause ==
    /\ pipe.pc = "idle"
    /\ ~paused
    /\ paused' = TRUE
    /\ storeOp' = StoreOp("pause", {}, <<>>)
    /\ UNCHANGED <<fs, arcs, cur, pipe, reader, focus, notes, hookVars, ld, call, writer, module>>

Resume ==
    /\ pipe.pc = "idle"
    /\ paused
    /\ paused' = FALSE
    /\ storeOp' = StoreOp("resume", {}, <<>>)
    /\ UNCHANGED <<fs, arcs, cur, pipe, reader, focus, notes, hookVars, ld, call, writer, module>>

\* a thread calls FULL_STATE.load() and gets the current Arc
ReaderLoad ==
    /\ reader.pc = "idle"
    /\ reader' = [pc |-> "loaded", ref |-> cur, seen |-> arcs[cur], view |-> EmptyState]
    /\ storeOp' = StoreOp("reader", {}, <<>>)
    /\ UNCHANGED <<fs, arcs, cur, pipe, paused, focus, notes, hookVars, ld, call, writer, module>>

\* it reads the fields through the Arc it holds
ReaderRead ==
    /\ reader.pc = "loaded"
    /\ reader' = [reader EXCEPT !.pc = "read", !.view = arcs[reader.ref]]
    /\ storeOp' = StoreOp("reader", {}, <<>>)
    /\ UNCHANGED <<fs, arcs, cur, pipe, paused, focus, notes, hookVars, ld, call, writer, module>>

\* it drops the Arc: an allocation FULL_STATE no longer points to is freed
ReaderDrop ==
    /\ reader.pc = "read"
    /\ reader' = NoReader
    /\ arcs' = [x \in {cur} |-> arcs[x]]
    /\ storeOp' = StoreOp("reader", {}, <<>>)
    /\ UNCHANGED <<fs, cur, pipe, paused, focus, notes, hookVars, ld, call, writer, module>>

\* what the direct mutation writes: a field no reload of the focus touches
WriterValue == "h2"

\* the mutation of the thread's own clone
mutate(st) == [st EXCEPT !.history = WriterValue]

\* FULL_STATE.load().cloned(): the thread's own copy of the current snapshot
WriterClone ==
    /\ writer.pc = "idle"
    /\ writer' = [pc |-> "cloned", state |-> arcs[cur]]
    /\ storeOp' = StoreOp("writer", {}, <<>>)
    /\ UNCHANGED <<fs, arcs, cur, pipe, paused, reader, focus, notes, hookVars, ld, call, module>>

\* the copy is changed and stored; the note tells whether that happened
\* between the pipeline's clone and its first publish of the batch
WriterStore ==
    /\ writer.pc = "cloned"
    /\ LET snapshot == mutate(writer.state)
           st == store(arcs, cur, snapshot, Held)
       IN  /\ arcs' = st.arcs
           /\ cur' = st.cur
           /\ writer' = [pc |-> "done", state |-> snapshot]
    /\ notes' = [notes EXCEPT !.mutated =
                    pipe.pc = "batch" /\ \A c \in Categories : notes.emits[c] = 0]
    /\ storeOp' = StoreOp("mutate", {}, <<>>)
    /\ UNCHANGED <<fs, pipe, paused, reader, focus, hookVars, ld, call, module>>

NextReload ==
    \/ \E c \in Categories : \E v \in FileStates(c) : FsWrite(c, v)
    \/ BatchDeliver
    \/ \E ev \in EventsOf(focus) : BatchEvent(ev)
    \/ BatchEnd
    \/ Pause
    \/ Resume

NextStore ==
    \/ NextReload
    \/ ReaderLoad
    \/ ReaderRead
    \/ ReaderDrop

NextMutate ==
    \/ NextReload
    \/ WriterClone
    \/ WriterStore

----------------------------------------------------------------------------
(***************************************************************************)
(* The snapshot store and the reload pipeline: properties.                 *)
(***************************************************************************)
\* C6: the Arc a reader got from FULL_STATE.load() keeps showing the snapshot
\* that was current at the load, whole, whatever is published afterwards:
\* what it reads through the Arc is that snapshot, field for field.
C6_ReaderViewStable ==
    /\ reader.pc # "idle" =>
          /\ reader.ref \in DOMAIN arcs
          /\ arcs[reader.ref] = reader.seen
    /\ reader.pc = "read" => reader.view = reader.seen

\* a reader has read through an Arc that is no longer the current one, and
\* the current snapshot differs from what it read
C6_Witness ==
    /\ reader.pc = "read"
    /\ reader.ref # cur
    /\ arcs[cur] # reader.view

\* the step is one iteration of the batch loop that published a snapshot
PublishStep ==
    /\ storeOp'.op = "event"
    /\ \E i \in 1..Len(storeOp'.log) : storeOp'.log[i].kind = "publish"

SettingsAfter(X, s, published) ==
    CASE X = "placeholders" /\ s.placeholder \notin DOMAIN published.placeholders ->
            [s EXCEPT !.placeholder = DefaultPlaceholder]
      [] X = "layouts" /\ s.default_layout \notin DOMAIN published.layouts ->
            [s EXCEPT !.default_layout = DefaultLayout]
      [] OTHER -> s

NoLoadFailed == \A c \in Categories : notes.loads[c] = notes.emits[c]

\* C8: when the loop over a batch ends (no load of the batch having failed),
\* every category the batch touched has had exactly one load and one
\* notification, however many events of the batch fall under its paths, and
\* no other category has had a notification.
C8_OncePerBatch ==
    [][(storeOp'.op = "end" /\ NoLoadFailed) =>
          \A c \in Categories :
              IF c \in notes.touched
              THEN notes.loads[c] = 1 /\ notes.emits[c] = 1
              ELSE notes.emits[c] = 0]_vars

\* C9: a batch delivered while FILE_LISTENER_PAUSED is set is dropped: no
\* load, no publish, no notification, the snapshot and the files as they
\* were, no batch left in progress; clearing the flag starts nothing.
C9_PausedBatchDropped ==
    [][/\ (paused /\ storeOp'.op \in {"drop", "start"}) =>
              /\ storeOp'.op = "drop"
              /\ storeOp'.log = <<>>
              /\ UNCHANGED <<fs, arcs, cur, pipe, notes>>
       /\ storeOp'.op = "resume" =>
              /\ pipe'.pc = "idle"
              /\ UNCHANGED <<fs, arcs, cur, pipe, notes>>]_vars

\* a batch was dropped while the weg items file differs from the snapshot
C9_Witness ==
    /\ storeOp.op = "drop"
    /\ paused
    /\ fs.weg.st = "ok"
    /\ fs.weg.v # arcs[cur].weg_items

----------------------------------------------------------------------------
(***************************************************************************)
(* The category loads: properties.                                         *)
(***************************************************************************)
\* the entry e is a file (for themes, a file or a theme directory) that loads
Loadable(c, e) == load_entry(c, e).ok

\* the entries of the bundled and of the user directory a load l read
BundledOf(l) == l.fs.bundled[l.cat].entries
UserOf(l) == l.fs.user[l.cat].entries

\* C10: after a load of an identity-keyed category, an identity that has a
\* loadable file in the bundled root and in the user root is in the mapping
\* with the user file's content (a mapping holds one entry per identity).
C10_UserWins ==
    (ld.cat \in IdCats /\ ld.ok) =>
        \A n \in NamesOf(ld.cat) :
            (/\ n \in DOMAIN BundledOf(ld)
             /\ n \in DOMAIN UserOf(ld)
             /\ Loadable(ld.cat, BundledOf(ld)[n])
             /\ Loadable(ld.cat, UserOf(ld)[n]))
            => /\ n \in DOMAIN ld.state[ld.cat]
               /\ ld.state[ld.cat][n].data = UserOf(ld)[n].data
               /\ ld.state[ld.cat][n].filename = n

\* a load met the same identity in both roots with different contents, next
\* to another file
C10_Witness ==
    /\ ld.cat \in IdCats
    /\ ld.ok
    /\ \E n \in NamesOf(ld.cat) :
         /\ n \in DOMAIN BundledOf(ld)
         /\ n \in DOMAIN UserOf(ld)
         /\ Loadable(ld.cat, BundledOf(ld)[n])
         /\ Loadable(ld.cat, UserOf(ld)[n])
         /\ BundledOf(ld)[n].data # UserOf(ld)[n].data
         /\ DOMAIN BundledOf(ld) # {n}
         /\ ld.state[ld.cat][n].data = UserOf(ld)[n].data

\* the entry of a mapping for the name n comes from the file e
LoadedFrom(map, n, e) == n \in DOMAIN map /\ map[n].data = e.data

\* n names a file of the directory d that loads in category c
Good(c, d, n) == n \in DOMAIN d /\ Loadable(c, d[n])

\* the list of per-app configurations has every application of the file f
\* (a file that parses), with the flag is_bundled
HasApps(list, f, is_bundled) ==
    \A i \in 1..Len(f.v) :
        \E j \in 1..Len(list) : list[j] = [id |-> f.v[i], is_bundled |-> is_bundled]

\* C11 (as claimed): a load of themes, placeholders, layouts or per-app
\* configurations whose directories exist returns Ok whatever files are bad,
\* and has the entries of every file that is good.
C11_BadFileSkipped ==
    /\ (ld.cat \in IdCats /\ ld.fs0.user[ld.cat].exists) =>
          /\ ld.ok
          /\ \A n \in NamesOf(ld.cat) :
                /\ Good(ld.cat, UserOf(ld), n) =>
                      LoadedFrom(ld.state[ld.cat], n, UserOf(ld)[n])
                /\ (Good(ld.cat, BundledOf(ld), n) /\ ~Good(ld.cat, UserOf(ld), n)) =>
                      LoadedFrom(ld.state[ld.cat], n, BundledOf(ld)[n])
    /\ (ld.cat = "settings_by_app" /\ ld.fs0.apps_user.st # "absent") =>
          /\ ld.ok
          /\ ld.fs0.apps_tmpl.st = "ok" =>
                HasApps(ld.state.settings_by_app, ld.fs0.apps_tmpl, TRUE)
          /\ ld.fs0.apps_user.st = "ok" =>
                HasApps(ld.state.settings_by_app, ld.fs0.apps_user, FALSE)

\* C12 (as claimed): in the published snapshot the selected placeholder is in
\* the mapping of placeholders or is default.yml, and the default layout is
\* in the mapping of layouts or is BSP.json.
C12_SelectionValid ==
    LET s == arcs[cur]
    IN  /\ s.settings.placeholder \in DOMAIN s.placeholders \cup {DefaultPlaceholder}
        /\ s.settings.default_layout \in DOMAIN s.layouts \cup {DefaultLayout}

\* C13 (as claimed): a load that finds the user's directory or file missing
\* returns Ok, leaves one on disk, and has the bundled defaults that load.
C13_AbsentUserRoot ==
    /\ (ld.cat \in IdCats /\ ~ld.fs0.user[ld.cat].exists) =>
          /\ ld.ok
          /\ ld.fs.user[ld.cat].exists
          /\ \A n \in NamesOf(ld.cat) :
                Good(ld.cat, BundledOf(ld), n) =>
                    LoadedFrom(ld.state[ld.cat], n, BundledOf(ld)[n])
    /\ (ld.cat = "settings" /\ ld.fs0.settings.st = "absent") =>
          ld.ok /\ ld.fs.settings = Ok(ld.state.settings)
    /\ (ld.cat = "weg_items" /\ ld.fs0.weg.st = "absent") =>
          ld.ok /\ ld.fs.weg = Ok(ld.state.weg_items)
    /\ (ld.cat = "history" /\ ld.fs0.history.st = "absent") =>
          ld.ok /\ ld.fs.history = Ok(ld.state.history)
    /\ (ld.cat = "settings_by_app" /\ ld.fs0.apps_user.st = "absent"
           /\ ld.fs0.apps_tmpl.st = "ok") =>
          /\ ld.ok
          /\ ld.fs.apps_user.st = "ok"
          /\ HasApps(ld.state.settings_by_app, ld.fs0.apps_tmpl, TRUE)

----------------------------------------------------------------------------
(***************************************************************************)
(* The hook thread (win_event_hook) and the threads of run_with_async.     *)
(***************************************************************************)
Idle == [pc |-> "idle", event |-> "none", origin |-> NoWindow, queue |-> <<>>]

NoOp == [op |-> "init", h |-> NoWindow, k |-> "none", res |-> "none"]

Op(op, h, k, res) == [op |-> op, h |-> h, k |-> k, res |-> res]

\* the two mutexes, each free or held by the hook thread
Unlocked == [l \in {"SEELEN", "HOOK_MANAGER"} |-> "free"]

\* the hook thread takes HOOK_MANAGER first
HookLockOrderReversed == <<"HOOK_MANAGER", "SEELEN">>

\* the order in which win_event_hook takes the two mutexes
HookLockOrder == <<"SEELEN", "HOOK_MANAGER">>

\* the guard on HOOK_MANAGER is dropped as soon as an event call returns
GuardDroppedAfterEvent(l) == [l EXCEPT !["HOOK_MANAGER"] = "free"]

\* the mutexes between two HookManager::event calls of one notification: the
\* guards seelen and hook_manager are locals of win_event_hook and live to
\* its end
GuardsAfterEvent(l) == l

\* a module that has not called run_with_async yet
NoModule == [pc |-> "idle", h |-> NoWindow, task |-> "none", join |-> FALSE]

InitHook ==
    /\ skip = EmptyMap
    /\ dict = EmptyMap
    /\ last = NoWindow
    /\ hook = Idle
    /\ running = TRUE
    /\ hooked = TRUE
    /\ alive = Handles
    /\ locks = Unlocked
    /\ module = NoModule
    /\ lastOp = NoOp

\* HookManager::run_with_async(|hm| hm.skip(event, hwnd)), called by a module
\* about to operate on an existing window: the spawned thread waits for the
\* HOOK_MANAGER mutex, runs the closure and drops the guard
RunSkip(h, k) ==
    /\ locks["HOOK_MANAGER"] = "free"
    /\ h \in alive
    /\ TotalPending(skip) < MaxPending
    /\ skip' = skip_push(skip, k, h)
    /\ lastOp' = Op("skip", h, k, "none")
    /\ UNCHANGED <<dict, last, hook, running, hooked, alive, locks, storeVars, call, writer, module>>

\* win_event_hook up to the lock acquisition: running flag, object-id filter,
\* rate limit
HookEnter(h, k, id_object) ==
    /\ hook.pc = "idle"
    /\ hooked
    /\ h \in alive
    /\ IF ~running
       THEN /\ hooked' = FALSE
            /\ lastOp' = Op("enter", h, k, "unhook")
            /\ UNCHANGED <<skip, dict, last, hook, running, alive, locks, storeVars, call, writer, module>>
       ELSE IF id_object # 0
       THEN /\ lastOp' = Op("enter", h, k, "child")
            /\ UNCHANGED <<skip, dict, last, hook, running, hooked, alive, locks,
                           storeVars, call, writer, module>>
       ELSE IF k = LocationChange
       THEN LET r == location_delay_completed(dict, last, h)
            IN  /\ dict' = r.dict
                /\ last' = r.last
                /\ hook' = IF r.ok
                           THEN [pc |-> "gated", event |-> k, origin |-> h,
                                 queue |-> <<>>]
                           ELSE hook
                /\ lastOp' = Op("enter", h, k, IF r.ok THEN "pass" ELSE "limited")
                /\ UNCHANGED <<skip, running, hooked, alive, locks, storeVars, call, writer, module>>
       ELSE /\ hook' = [pc |-> "gated", event |-> k, origin |-> h, queue |-> <<>>]
            /\ lastOp' = Op("enter", h, k, "pass")
            /\ UNCHANGED <<skip, dict, last, running, hooked, alive, locks, storeVars, call, writer, module>>

\* the hook thread's position once an event call is over: the next synthetic,
\* or the end of win_event_hook
AfterEvent(queue) ==
    IF queue = <<>> THEN Idle ELSE [hook EXCEPT !.pc = "dispatch", !.queue = queue]

\* the mutexes once an event call is over, l being those held during it:
\* win_event_hook returns after the last one and drops both guards
LocksAfterEvent(l, queue) == IF queue = <<>> THEN Unlocked ELSE GuardsAfterEvent(l)

\* trace_lock!(<the first mutex>)
HookLockFirst ==
    /\ hook.pc = "gated"
    /\ locks[HookLockOrder[1]] = "free"
    /\ locks' = [locks EXCEPT ![HookLockOrder[1]] = "hook"]
    /\ hook' = [hook EXCEPT !.pc = "locking"]
    /\ lastOp' = Op("lock", hook.origin, hook.event, HookLockOrder[1])
    /\ UNCHANGED <<skip, dict, last, running, hooked, alive, storeVars, call, writer, module>>

\* trace_lock!(<the second mutex>), then hook_manager.event for the primary
\* event as far as the skip-check: a swallowed event returns, another goes on
\* to the downstream modules
HookDispatch ==
    /\ hook.pc = "locking"
    /\ locks[HookLockOrder[2]] = "free"
    /\ LET r == event(skip, hook.event, hook.origin)
           held == [locks EXCEPT ![HookLockOrder[2]] = "hook"]
       IN  /\ skip' = r.skip
           /\ lastOp' = Op("event", hook.origin, hook.event,
                           IF r.swallowed THEN "swallowed" ELSE "processed")
           /\ IF r.swallowed
              THEN \E syn \in get_synthetics(hook.event) :
                      /\ hook' = AfterEvent(syn)
                      /\ locks' = LocksAfterEvent(held, syn)
              ELSE /\ hook' = [hook EXCEPT !.pc = "downstream"]
                   /\ locks' = held
    /\ UNCHANGED <<dict, last, running, hooked, alive, storeVars, call, writer, module>>

\* the rest of HookManager::event for the primary event: the focus
\* notification, the virtual-desktop manager, the toolbar and weg of every
\* monitor; then event.get_synthetics(origin)
HookDownstream ==
    /\ hook.pc = "downstream"
    /\ \E syn \in get_synthetics(hook.event) :
          /\ hook' = AfterEvent(syn)
          /\ locks' = LocksAfterEvent(locks, syn)
    /\ lastOp' = Op("downstream", hook.origin, hook.event, "none")
    /\ UNCHANGED <<skip, dict, last, running, hooked, alive, storeVars, call, writer, module>>

\* hook_manager.event(synthetic_event, origin, &mut seelen) in the loop over
\* the synthetics, as far as the skip-check
HookSynthetic ==
    /\ hook.pc = "dispatch"
    /\ locks["HOOK_MANAGER"] \in {"free", "hook"}
    /\ LET ev == Head(hook.queue)
           r == synthetic_event(skip, ev, hook.origin)
           held == [locks EXCEPT !["HOOK_MANAGER"] = "hook"]
       IN  /\ skip' = r.skip
           /\ lastOp' = Op("event", hook.origin, ev,
                           IF r.swallowed THEN "swallowed" ELSE "processed")
           /\ IF r.swallowed
              THEN /\ hook' = AfterEvent(Tail(hook.queue))
                   /\ locks' = LocksAfterEvent(held, Tail(hook.queue))
              ELSE /\ hook' = [hook EXCEPT !.pc = "downstream_synthetic"]
                   /\ locks' = held
    /\ UNCHANGED <<dict, last, running, hooked, alive, storeVars, call, writer, module>>

\* the rest of HookManager::event for a synthetic event
HookSyntheticDownstream ==
    /\ hook.pc = "downstream_synthetic"
    /\ hook' = AfterEvent(Tail(hook.queue))
    /\ locks' = LocksAfterEvent(locks, Tail(hook.queue))
    /\ lastOp' = Op("downstream", hook.origin, Head(hook.queue), "none")
    /\ UNCHANGED <<skip, dict, last, running, hooked, alive, storeVars, call, writer, module>>

\* time passes: every stored Instant gets older
Tick ==
    /\ \E h \in DOMAIN dict : dict[h] < MaxAge
    /\ dict' = [h \in DOMAIN dict |->
                  IF dict[h] + TickMs > MaxAge THEN MaxAge ELSE dict[h] + TickMs]
    /\ lastOp' = Op("tick", NoWindow, "none", "none")
    /\ UNCHANGED <<skip, last, hook, running, hooked, alive, locks, storeVars, call, writer, module>>

\* a window is destroyed: the OS produces no more notifications for it (some
\* window, such as the shell's own overlays, always remains)
DestroyWindow(h) ==
    /\ h \in alive
    /\ alive # {h}
    /\ hook.origin # h
    /\ alive' = alive \ {h}
    /\ lastOp' = Op("destroy", h, "none", "none")
    /\ UNCHANGED <<skip, dict, last, hook, running, hooked, locks, storeVars, call, writer, module>>

\* the shell clears its running flag
Shutdown ==
    /\ running
    /\ running' = FALSE
    /\ lastOp' = Op("shutdown", NoWindow, "none", "none")
    /\ UNCHANGED <<skip, dict, last, hook, hooked, alive, locks, storeVars, call, writer, module>>

\* a module about to bring the window h to the foreground calls
\* HookManager::run_with_async(|hm| hm.skip(SystemForeground, h)): the thread
\* is spawned and the call returns its JoinHandle, which the module waits
\* for (join) or not
ModuleRunWithAsync(h, join) ==
    /\ module.pc = "idle"
    /\ h \in alive
    /\ module' = [pc |-> "spawned", h |-> h, task |-> "pending", join |-> join]
    /\ lastOp' = Op("spawn", h, Foreground, "none")
    /\ UNCHANGED <<skip, dict, last, hook, running, hooked, alive, locks,
                   storeVars, call, writer>>

\* the spawned thread: trace_lock!(HOOK_MANAGER), the closure, the guard
\* dropped
ModuleTask ==
    /\ module.task = "pending"
    /\ locks["HOOK_MANAGER"] = "free"
    /\ skip' = skip_push(skip, Foreground, module.h)
    /\ module' = [module EXCEPT !.task = "done"]
    /\ lastOp' = Op("skip", module.h, Foreground, "none")
    /\ UNCHANGED <<dict, last, hook, running, hooked, alive, locks, storeVars, call, writer>>

\* the module performs the window operation, after the join if it waits
ModuleOperate ==
    /\ module.pc = "spawned"
    /\ module.join => module.task = "done"
    /\ module' = [module EXCEPT !.pc = "operated"]
    /\ lastOp' = Op("operate", module.h, Foreground, "none")
    /\ UNCHANGED <<skip, dict, last, hook, running, hooked, alive, locks,
                   storeVars, call, writer>>

\* the OS calls win_event_hook with the notification the operation caused
ModuleNotification ==
    /\ module.pc = "operated"
    /\ hook.pc = "idle"
    /\ hooked /\ running
    /\ hook' = [pc |-> "gated", event |-> Foreground, origin |-> module.h, queue |-> <<>>]
    /\ module' = [module EXCEPT !.pc = "notified"]
    /\ lastOp' = Op("enter", module.h, Foreground, "pass")
    /\ UNCHANGED <<skip, dict, last, running, hooked, alive, locks, storeVars, call, writer>>

\* later the user brings a window to the foreground: a genuine notification
ModuleGenuine(h) ==
    /\ module.pc = "notified"
    /\ hook.pc = "idle"
    /\ hooked /\ running
    /\ h \in alive
    /\ hook' = [pc |-> "gated", event |-> Foreground, origin |-> h, queue |-> <<>>]
    /\ module' = [module EXCEPT !.pc = "later"]
    /\ lastOp' = Op("enter", h, Foreground, "pass")
    /\ UNCHANGED <<skip, dict, last, running, hooked, alive, locks, storeVars, call, writer>>

\* a module's registration and operation next to the hook thread
NextModule ==
    \/ \E h \in Handles, join \in BOOLEAN : ModuleRunWithAsync(h, join)
    \/ ModuleTask
    \/ ModuleOperate
    \/ ModuleNotification
    \/ \E h \in Handles : ModuleGenuine(h)
    \/ HookLockFirst
    \/ HookDispatch
    \/ HookDownstream
    \/ HookSynthetic
    \/ HookSyntheticDownstream

\* the steps of the hook side while the shell runs
NextRunning ==
    \/ \E h \in Handles, k \in Kinds : RunSkip(h, k)
    \/ \E h \in Handles, k \in PrimaryKinds, id \in {0, 1} : HookEnter(h, k, id)
    \/ HookLockFirst
    \/ HookDispatch
    \/ HookDownstream
    \/ HookSynthetic
    \/ HookSyntheticDownstream
    \/ Tick
    \/ \E h \in Handles : DestroyWindow(h)

NextHook ==
    \/ NextRunning
    \/ Shutdown

\* no call under way
NoCall == [fn |-> "none", ev |-> "none", env |-> <<>>, out |-> <<>>]

InitCallIdle == call = NoCall

\* the environments of one HookManager::event call: the window's title in
\* IGNORE_FOCUS or not, its name and executable resolving or not, the shell's
\* own overlay or not, the modules enabled, a registration pending or not
EventEnvs ==
    [title_ignored : BOOLEAN, name_ok : BOOLEAN, exe_ok : BOOLEAN, overlay : BOOLEAN,
     vd_seelen : BOOLEAN, weg_enabled : BOOLEAN, wm_enabled : BOOLEAN,
     pending : BOOLEAN]

InitEventCall ==
    \E ev \in Kinds \cup {ObjectFocus}, e \in EventEnvs :
        call = [fn |-> "none", ev |-> ev, env |-> e, out |-> <<>>]

\* hook_manager.event(event, origin, &mut seelen) for the window 41
EventCall ==
    /\ call.fn = "none"
    /\ call.ev \in Kinds \cup {ObjectFocus}
    /\ LET m == IF call.env.pending THEN skip_push(EmptyMap, call.ev, 41) ELSE EmptyMap
       IN  call' = [call EXCEPT !.fn = "event",
                                !.out = <<event_call(m, call.ev, 41, call.env)>>]
    /\ UNCHANGED <<hookVars, storeVars, writer, module>>

\* the environments of one process_vd_event call: the window-manager module
\* enabled or not and its result, the window existing or not, its per-app
\* configuration (none, without or with Pinned), what the backend reports
VdEnvs ==
    [wm_enabled : BOOLEAN, wm_ok : BOOLEAN, is_window : BOOLEAN,
     config : {"none", "plain", "pinned"}, is_pinned : {"yes", "no", "err"},
     pin_ok : BOOLEAN, get_all_ok : BOOLEAN, emit_ok : BOOLEAN]

InitVdCall ==
    \E ev \in VdKinds, e \in VdEnvs :
        call = [fn |-> "none", ev |-> ev, env |-> e, out |-> <<>>]

\* the VirtualDesktopEventHook thread: log_error!(process_vd_event(event))
VdCall ==
    /\ call.fn = "none"
    /\ call.ev \in VdKinds
    /\ call' = [call EXCEPT !.fn = "process_vd_event",
                            !.out = <<process_vd_event(call.ev, call.env)>>]
    /\ UNCHANGED <<hookVars, storeVars, writer, module>>

\* the registrations pending per window when win_event_hook is called
PendingLists == {<<>>} \cup {<<k>> : k \in Kinds} \cup {<<k1, k2>> : k1, k2 \in Kinds}

\* the skip map with the registrations l41 for window 41 and l42 for 42
SkipMapOf(l41, l42) ==
    [h \in {x \in Handles : (x = 41 /\ l41 # <<>>) \/ (x = 42 /\ l42 # <<>>)} |->
        IF h = 41 THEN l41 ELSE l42]

\* the environments of one notification: the skip map and what
\* event.get_synthetics(origin) returns
DispatchEnvs(ev) ==
    {[skip |-> SkipMapOf(l41, l42), syn |-> syn] :
        l41 \in PendingLists, l42 \in {<<>>} \cup {<<k>> : k \in Kinds},
        syn \in get_synthetics(ev)}

InitDispatchCall ==
    \E ev \in PrimaryKinds : \E e \in DispatchEnvs(ev) :
        call = [fn |-> "none", ev |-> ev, env |-> e, out |-> <<>>]

\* win_event_hook for a notification about window 41 that passed the
\* filters: both mutexes, the event, its synthetics
DispatchCall ==
    /\ call.fn = "none"
    /\ call.ev \in PrimaryKinds
    /\ call' = [call EXCEPT !.fn = "win_event_hook",
                            !.out = dispatch_all(call.env.skip, call.ev, 41, call.env.syn)]
    /\ UNCHANGED <<hookVars, storeVars, writer, module>>

Init == InitHook /\ InitLoadIdle /\ InitStoreIdle /\ InitCallIdle

SpecHook == Init /\ [][NextHook]_vars

\* one category load on any input directories
InitSpecLoad == InitHook /\ (InitLoad \/ InitLoadFile) /\ InitStoreIdle /\ InitCallIdle

SpecLoad == InitSpecLoad /\ [][NextLoad]_vars

\* the reload pipeline on the files of any one group of categories
InitSpecReload == InitHook /\ InitLoadIdle /\ InitReload /\ InitCallIdle

SpecReload == InitSpecReload /\ [][NextReload]_vars

\* the reload pipeline next to a reader of FULL_STATE
InitSpecStore == InitHook /\ InitLoadIdle /\ InitStore /\ InitCallIdle

\* one HookManager::event call in any environment
InitSpecEvent == InitHook /\ InitLoadIdle /\ InitStoreIdle /\ InitEventCall

SpecEvent == InitSpecEvent /\ [][EventCall]_vars

\* one process_vd_event call in any environment
InitSpecVd == InitHook /\ InitLoadIdle /\ InitStoreIdle /\ InitVdCall

SpecVd == InitSpecVd /\ [][VdCall]_vars

\* one notification dispatched with its synthetics, on any skip map
InitSpecDispatch == InitHook /\ InitLoadIdle /\ InitStoreIdle /\ InitDispatchCall

SpecDispatch == InitSpecDispatch /\ [][DispatchCall]_vars

SpecStore == InitSpecStore /\ [][NextStore]_vars

\* a module that registers a skip and operates, next to the hook thread
InitSpecModule == InitHook /\ InitLoadIdle /\ InitStoreIdle /\ InitCallIdle

SpecModule == InitSpecModule /\ [][NextModule]_vars

\* the reload pipeline next to a thread that changes the state directly
InitSpecMutate == InitHook /\ InitLoadIdle /\ InitStore /\ InitCallIdle

SpecMutate == InitSpecMutate /\ [][NextMutate]_vars

\* the shell keeps running, the OS keeps notifying about every existing
\* window, the hook thread and the clock keep going
FairSpecHook ==
    /\ Init
    /\ [][NextRunning]_vars
    /\ WF_vars(HookLockFirst)
    /\ WF_vars(HookDispatch)
    /\ WF_vars(HookDownstream)
    /\ WF_vars(HookSynthetic)
    /\ WF_vars(HookSyntheticDownstream)
    /\ WF_vars(Tick)
    /\ \A h \in Handles, k \in PrimaryKinds : SF_vars(HookEnter(h, k, 0))

\* the shell may clear its running flag at any time; the hook thread and the
\* clock keep going, while nothing makes the OS deliver another notification
FairSpecShutdown ==
    /\ Init
    /\ [][NextHook]_vars
    /\ WF_vars(HookLockFirst)
    /\ WF_vars(HookDispatch)
    /\ WF_vars(HookDownstream)
    /\ WF_vars(HookSynthetic)
    /\ WF_vars(HookSyntheticDownstream)
    /\ WF_vars(Tick)

----------------------------------------------------------------------------
(***************************************************************************)
(* The skip registry and the rate limit: properties.                       *)
(***************************************************************************)
\* the step is a HookManager::event call (its outcome is in lastOp')
IsEvent == lastOp'.op = "event"

\* the step is a location-changed notification for a top-level window,
\* delivered while the shell runs (it went through location_delay_completed)
IsLocationNotification ==
    /\ lastOp'.op = "enter"
    /\ lastOp'.k = LocationChange
    /\ lastOp'.res \in {"pass", "limited"}

\* C1: every dispatched event is swallowed iff a registration for its own
\* (handle, kind) is pending, a swallowed event consumes exactly one such
\* registration, and no event changes the number of registrations pending
\* for any other handle or kind. So n pending registrations swallow the next
\* n matching events and the (n+1)-th is processed.
C1_SkipExactlyOnce ==
    [][IsEvent =>
         LET h == lastOp'.h
             k == lastOp'.k
             n == Pending(skip, k, h)
         IN  /\ (lastOp'.res = "swallowed") <=> (n > 0)
             /\ (lastOp'.res = "processed") <=> (n = 0)
             /\ \A h2 \in Handles, k2 \in Kinds :
                  Pending(skip', k2, h2) =
                    IF h2 = h /\ k2 = k /\ n > 0 THEN n - 1
                    ELSE Pending(skip, k2, h2)]_vars

\* an event was swallowed by one of two registrations pending for it
C1_Witness ==
    /\ lastOp.op = "event"
    /\ lastOp.res = "swallowed"
    /\ Pending(skip, lastOp.k, lastOp.h) = 1

\* C2 (as claimed): a location-changed notification delivered for h while a
\* registration for (h, LocationChange) is pending reaches the skip-check,
\* and the skip-check swallows it and consumes the registration.
C2_NextNotificationConsumesSkip ==
    [][/\ (IsLocationNotification /\ Pending(skip, LocationChange, lastOp'.h) > 0)
          => lastOp'.res = "pass"
       /\ (IsEvent /\ lastOp'.k = LocationChange
              /\ Pending(skip, LocationChange, lastOp'.h) > 0)
          => /\ lastOp'.res = "swallowed"
             /\ Pending(skip', LocationChange, lastOp'.h) =
                  Pending(skip, LocationChange, lastOp'.h) - 1]_vars

\* C3: no key of the skip map has an empty list.
C3_NoEmptyList == \A h \in DOMAIN skip : Len(skip[h]) >= 1

\* an event consumed the last registration of its window, whose key is gone
C3_Witness ==
    /\ lastOp.op = "event"
    /\ lastOp.res = "swallowed"
    /\ lastOp.h \notin DOMAIN skip

\* C4 (as claimed, for the case the claim names): the skip-map entry of a
\* window that was destroyed before the awaited notification arrived is
\* eventually removed from the map.
C4_StaleHandleRemoved ==
    \A h \in Handles : (h \in DOMAIN skip /\ h \notin alive) ~> (h \notin DOMAIN skip)

\* C5: a location-changed notification for w passes the rate limit iff the
\* last target is another window, w has no timestamp, or more than 50 ms
\* have elapsed since w's timestamp; passing resets w's timestamp and makes w
\* the last target, and a rejected notification changes neither.
C5_RateLimit ==
    [][IsLocationNotification =>
         LET w == lastOp'.h
         IN  /\ (lastOp'.res = "pass") <=>
                   (last # w \/ w \notin DOMAIN dict \/ dict[w] > DelayMs)
             /\ (lastOp'.res = "pass") =>
                   /\ w \in DOMAIN dict' /\ dict'[w] = 0
                   /\ last' = w
                   /\ \A x \in Handles \ {w} :
                        /\ (x \in DOMAIN dict') <=> (x \in DOMAIN dict)
                        /\ x \in DOMAIN dict => dict'[x] = dict[x]
             /\ (lastOp'.res = "limited") => (dict' = dict /\ last' = last)]_vars

\* a notification of the last target was rejected within the 50 ms
C5_Witness ==
    /\ lastOp.op = "enter"
    /\ lastOp.res = "limited"
    /\ last = lastOp.h
    /\ dict[lastOp.h] > 0
    /\ dict[lastOp.h] <= DelayMs

----------------------------------------------------------------------------
(***************************************************************************)
(* The locks and the order of the dispatch: properties.                    *)
(***************************************************************************)
\* the hook thread is inside HookManager::event, past the skip-check: the
\* downstream modules are processing the event
InDownstream == hook.pc \in {"downstream", "downstream_synthetic"}

\* the hook thread is between the start of the primary event's dispatch and
\* the end of the last synthetic's
InDispatch == hook.pc \in {"downstream", "dispatch", "downstream_synthetic"}

\* C14: the hook thread takes SEELEN only while it does not hold
\* HOOK_MANAGER, and takes HOOK_MANAGER only while it is free; a thread of
\* run_with_async takes HOOK_MANAGER while it is free and no other mutex, so
\* no thread waits for SEELEN, or again for HOOK_MANAGER, holding HOOK_MANAGER.
C14_LockOrder ==
    [][/\ (locks["SEELEN"] = "free" /\ locks'["SEELEN"] = "hook") =>
              locks["HOOK_MANAGER"] = "free"
       /\ (hook.pc = "locking" /\ hook'.pc # "locking") =>
              /\ locks["SEELEN"] = "hook"
              /\ locks["HOOK_MANAGER"] = "free"
       /\ lastOp'.op = "skip" =>
              /\ locks["HOOK_MANAGER"] = "free"
              /\ locks' = locks]_vars

\* a run_with_async thread registered a skip while the hook thread held
\* SEELEN and was about to take HOOK_MANAGER
C14_Witness ==
    /\ hook.pc = "locking"
    /\ locks["SEELEN"] = "hook"
    /\ locks["HOOK_MANAGER"] = "free"
    /\ lastOp.op = "skip"

\* C15 (as claimed): while the downstream modules process an event the
\* HOOK_MANAGER mutex is free, so that a skip registration can take it.
C15_RegistryLockFreeDownstream ==
    InDownstream => locks["HOOK_MANAGER"] = "free"

\* C16: from the start of the primary event's dispatch to the end of its last
\* synthetic's, no run_with_async closure runs, no other notification enters
\* the dispatch, and every event dispatched is one of this notification, for
\* its window.
C16_DispatchUninterrupted ==
    [][InDispatch =>
          /\ lastOp'.op \notin {"skip", "lock", "enter"}
          /\ lastOp'.op \in {"event", "downstream"} =>
                /\ lastOp'.h = hook.origin
                /\ hook'.origin \in {hook.origin, NoWindow}
          /\ lastOp'.op \notin {"event"} => skip' = skip]_vars

\* the hook thread is between a primary event and its synthetic while a
\* window exists for which a skip could be registered
C16_Witness ==
    /\ hook.pc = "dispatch"
    /\ lastOp.op \in {"event", "downstream"}
    /\ lastOp.k \in PrimaryKinds
    /\ TotalPending(skip) < MaxPending
    /\ alive # {}

\* C20: a step of the loop over the synthetics dispatches the next synthetic
\* kind for the window of the primary event; it is swallowed iff a
\* registration for (window, synthetic kind) is pending, and then consumes
\* one; it goes through neither the object-id filter nor the rate limit,
\* whose state it leaves alone.
C20_SyntheticThroughSkipCheck ==
    [][(hook.pc = "dispatch" /\ lastOp'.op = "event") =>
          LET k == Head(hook.queue)
              n == Pending(skip, k, hook.origin)
          IN  /\ lastOp'.h = hook.origin
              /\ lastOp'.k = k
              /\ lastOp'.res = IF n > 0 THEN "swallowed" ELSE "processed"
              /\ Pending(skip', k, hook.origin) = IF n > 0 THEN n - 1 ELSE 0
              /\ dict' = dict
              /\ last' = last
              /\ n > 0 => hook'.queue = Tail(hook.queue)]_vars

\* a synthetic was swallowed by a registration for its kind, after a primary
\* location change of the same window that passed the rate limit
C20_Witness ==
    /\ lastOp.op = "event"
    /\ lastOp.k = SyntheticKind
    /\ lastOp.res = "swallowed"
    /\ last = lastOp.h

\* C18 (as claimed): once the running flag is cleared, the OS event hook is
\* eventually uninstalled, whether or not another notification is delivered.
C18_UnhookAfterShutdown == (~running) ~> (~hooked)

----------------------------------------------------------------------------
(***************************************************************************)
(* HookManager::event and process_vd_event: properties.                    *)
(***************************************************************************)
\* the elements of a sequence
Range(q) == {q[i] : i \in 1..Len(q)}

C19_PinIffNeeded ==
    call.fn = "process_vd_event" =>
        LET o == call.out[1]
            e == call.env
        IN  /\ ("pin_window" \in Range(o.did)) <=>
                  /\ call.ev = "WindowChanged"
                  /\ e.is_window
                  /\ e.config = "pinned"
                  /\ e.is_pinned = "no"
            /\ e.wm_enabled => (o.did # <<>> /\ o.did[1] = "wm")
            /\ ~e.wm_enabled => "wm" \notin Range(o.did)
            /\ Cardinality({i \in 1..Len(o.did) : o.did[i] = "pin_window"}) <= 1

\* a window was pinned again after a forwarding to the window manager that
\* failed
C19_Witness ==
    /\ call.fn = "process_vd_event"
    /\ call.env.wm_enabled
    /\ ~call.env.wm_ok
    /\ call.out[1].did = <<"wm", "is_pinned_window", "pin_window">>

\* C21: an event that the skip-check did not swallow and the focus filter did
\* not stop is forwarded to the virtual-desktop handler, whatever the
\* configuration and the virtual-desktop backend are, and before the taskbar
\* module, the window-manager module and the per-monitor instances.
C21_VdForwardedFirst ==
    call.fn = "event" =>
        LET o == call.out[1]
            e == call.env
        IN  (~o.swallowed /\ ~(call.ev \in FocusKinds /\ e.title_ignored)) =>
                /\ o.effects.forwarded # <<>>
                /\ o.effects.forwarded[1] = "vd"

----------------------------------------------------------------------------
(***************************************************************************)
(* The reload pipeline and direct mutations: properties.                   *)
(***************************************************************************)
\* C22: a change stored by a direct mutation between the pipeline's clone of
\* the snapshot and the pipeline's publish is still in the current snapshot
\* once the pipeline has published, next to the data the pipeline reloaded.
C22_MutationNotLost ==
    (/\ pipe.pc = "batch"
     /\ notes.mutated
     /\ writer.pc = "done"
     /\ \E c \in Categories : notes.emits[c] > 0) =>
        /\ arcs[cur].history = WriterValue
        /\ arcs[cur].weg_items = pipe.state.weg_items

\* the identities of the loadable files of category c in both directories
LoadableNames(c, f) ==
    {n \in DOMAIN f.bundled[c].entries : Loadable(c, f.bundled[c].entries[n])}
    \cup {n \in DOMAIN f.user[c].entries : Loadable(c, f.user[c].entries[n])}

\* C23: after a reload of themes, placeholders or layouts the category's
\* mapping in the published snapshot holds exactly the identities of the
\* loadable files found in the bundled and the user directory: the identity
\* of a file deleted since the previous load is gone.
C23_ReloadDropsDeleted ==
    \A c \in IdCats :
        (storeOp.op = "event" /\ LogCount(storeOp.log, "publish", c) > 0) =>
            DOMAIN arcs[cur][c] = LoadableNames(c, fs)

\* C24: in one process_event every notification of a category comes right
\* after the publish of the snapshot with that category reloaded; a category
\* whose load failed has neither a publish nor a notification in that event,
\* and the event ends there; without a failure the snapshot published last
\* is the manager with everything the event reloaded.
C24_EmitAfterPublish ==
    storeOp.op = "event" =>
        LET log == storeOp.log
        IN  /\ \A i \in 1..Len(log) :
                  log[i].kind = "emit" =>
                      /\ i > 1
                      /\ log[i - 1] = [kind |-> "publish", cat |-> log[i].cat]
            /\ \A i \in 1..Len(log) :
                  log[i].kind = "failed" =>
                      /\ i = Len(log)
                      /\ \A j \in 1..Len(log) : log[j].cat = log[i].cat => j = i
            /\ ((\A i \in 1..Len(log) : log[i].kind # "failed") /\ log # <<>>) =>
                  arcs[cur] = pipe.state

\* one event reloaded and notified a category and then failed on another
C24_Witness ==
    /\ storeOp.op = "event"
    /\ \E i, j \in 1..Len(storeOp.log) :
         /\ storeOp.log[i].kind = "emit"
         /\ storeOp.log[j].kind = "failed"
         /\ i < j

----------------------------------------------------------------------------
(***************************************************************************)
(* A module's skip registration and its own notification: properties.      *)
(***************************************************************************)
\* C25: when the notification caused by the module's operation reaches the
\* skip-check, the registration made through run_with_async is in the skip
\* map and the notification is swallowed; a genuine foreground change that
\* comes later is processed, not swallowed by that registration.
C25_RegisteredBeforeDispatch ==
    /\ (module.pc = "notified" /\ lastOp.op = "event" /\ lastOp.k = Foreground) =>
          /\ module.task = "done"
          /\ lastOp.res = "swallowed"
    /\ (module.pc = "later" /\ lastOp.op = "event" /\ lastOp.k = Foreground) =>
          lastOp.res = "processed"

----------------------------------------------------------------------------
(***************************************************************************)
(* A notification and its synthetics: properties.                          *)
(***************************************************************************)
\* C26: whatever the skip-check does with the primary event, every synthetic
\* that get_synthetics derives is passed to HookManager::event for the same
\* window; a swallowed primary event takes one registration of its own kind
\* from the window's list and no other, so a synthetic with no registration
\* of its own is processed.
C26_SyntheticsAfterSwallow ==
    call.fn = "win_event_hook" =>
        LET o == call.out
            e == call.env
        IN  /\ Len(o) = 1 + Len(e.syn)
            /\ \A i \in 1..Len(e.syn) :
                  o[i + 1].ev = e.syn[i] /\ o[i + 1].origin = o[1].origin
            /\ o[1].swallowed =>
                  /\ Pending(o[1].skip, call.ev, 41) = Pending(e.skip, call.ev, 41) - 1
                  /\ \A h \in Handles, k \in Kinds :
                        (h # 41 \/ k # call.ev) =>
                            Pending(o[1].skip, k, h) = Pending(e.skip, k, h)
                  /\ \A i \in 1..Len(e.syn) :
                        Pending(e.skip, e.syn[i], 41) = 0 => ~o[i + 1].swallowed

\* a foreground change was swallowed and the synthetic it implies was
\* processed
C26_Witness ==
    /\ call.fn = "win_event_hook"
    /\ call.ev = Foreground
    /\ Len(call.out) = 2
    /\ call.out[1].swallowed
    /\ ~call.out[2].swallowed

====
